---- MODULE Spec2Model ----
(***************************************************************************)
(* RadarSci: one run of the `radar` command (src/radarsci/cli.py).         *)
(*                                                                         *)
(* Strings are sequences of one-character strings.  Times are integer      *)
(* ticks, TicksPerDay ticks to a day; a parsed publication date is the     *)
(* midnight of its day.  A relevance score is an integer number of         *)
(* hundredths (the code rounds it to 2 decimals).  Python's None is the    *)
(* value None below for the Optional[int]/Optional[datetime] fields; an    *)
(* absent summary is the empty string and an absent source score is 0      *)
(* (the code tests both by truthiness only).  The authors of a paper play  *)
(* no part in a run before the report and are left out.                    *)
(***************************************************************************)
EXTENDS Integers, Sequences, FiniteSets, TLC

(***************************************************************************)
(* Bounds of the model.                                                    *)
(***************************************************************************)
MaxJournals == 2        \* journals queried in one run
MaxHits == 4            \* search hits over all responses of one run
MaxKeywords == 4        \* keywords given on the command line
MaxLimit == 4           \* largest --limit tried
MaxMatch == 7           \* largest keyword / match count given to the classifiers
MaxQueryKeywords == 2   \* keywords given to fetch_for_journal called on its own
TicksPerDay == 2        \* resolution of the clock
Today == 100            \* day number of the run

None == -1

(***************************************************************************)
(* Characters and strings.                                                 *)
(***************************************************************************)
Whitespace == {" ", "\t"}

\* str.lower() on one character
LowerChar(c) ==
    CASE c = "A" -> "a"
      [] c = "B" -> "b"
      [] c = "C" -> "c"
      [] c = "D" -> "d"
      [] c = "E" -> "e"
      [] c = "N" -> "n"
      [] c = "U" -> "u"
      [] OTHER -> c

Lower(s) == [i \in 1..Len(s) |-> LowerChar(s[i])]

\* code point of a character, for Python's string comparison
Ord(c) ==
    CASE c = "\t" -> 9
      [] c = " " -> 32
      [] c = "A" -> 65
      [] c = "B" -> 66
      [] c = "C" -> 67
      [] c = "D" -> 68
      [] c = "E" -> 69
      [] c = "N" -> 78
      [] c = "U" -> 85
      [] c = "a" -> 97
      [] c = "b" -> 98
      [] c = "c" -> 99
      [] c = "d" -> 100
      [] c = "e" -> 101
      [] c = "i" -> 105
      [] c = "l" -> 108
      [] c = "n" -> 110
      [] c = "t" -> 116
      [] c = "u" -> 117
      [] c = "x" -> 120
      [] OTHER -> 122

Codes(s) == [i \in 1..Len(s) |-> Ord(s[i])]

RECURSIVE LStrip(_)
LStrip(s) ==
    IF s # <<>> /\ Head(s) \in Whitespace THEN LStrip(Tail(s)) ELSE s

RECURSIVE RStrip(_)
RStrip(s) ==
    IF s # <<>> /\ s[Len(s)] \in Whitespace
    THEN RStrip(SubSeq(s, 1, Len(s) - 1))
    ELSE s

\* str.strip()
Strip(s) == RStrip(LStrip(s))

\* does `needle` occur in `hay` at position i
OccursAt(hay, needle, i) ==
    /\ i + Len(needle) - 1 <= Len(hay)
    /\ \A k \in 1..Len(needle) : hay[i + k - 1] = needle[k]

\* str.count(): non-overlapping occurrences, scanning from the left
RECURSIVE CountFrom(_, _, _)
CountFrom(hay, needle, i) ==
    IF i + Len(needle) - 1 > Len(hay) THEN 0
    ELSE IF OccursAt(hay, needle, i)
         THEN 1 + CountFrom(hay, needle, i + Len(needle))
         ELSE CountFrom(hay, needle, i + 1)

Count(hay, needle) == CountFrom(hay, needle, 1)

Range(seq) == {seq[i] : i \in DOMAIN seq}

Max(a, b) == IF a >= b THEN a ELSE b
Min(a, b) == IF a <= b THEN a ELSE b

(***************************************************************************)
(* models.py: JournalConfig and Paper.                                     *)
(***************************************************************************)
JournalConfig(name, container) == [name |-> name, container_title |-> container]

\* a Paper as the fetcher constructs it; `id` is the identity of the object
Paper(id, journal, title, url, published, summary, source_score) ==
    [id |-> id, journal |-> journal, title |-> title, url |-> url,
     published |-> published, summary |-> summary, relevance |-> 0,
     source_score |-> source_score, age_days |-> None, match_count |-> 0]

(***************************************************************************)
(* relevance.py: compute_relevance.  Scores are in hundredths.             *)
(***************************************************************************)
TitleWeight == 600      \* 6.0 per occurrence in the title
BodyWeight == 250       \* 2.5 per occurrence in title + " " + summary
MatchWeight == 400      \* 4.0 per matched keyword
FreshWeight == 600      \* 6.0 * freshness
DecayWeight == 400      \* 4.0 * decay
HintDivisor == 10       \* source_score / 10.0
WindowFloor == 30       \* window = max(recency_window, 30)

Target(keyword) == Strip(Lower(keyword))

\* title_hits and body_hits of every keyword; a keyword with an empty target
\* is skipped by the loop and counts nothing
KeywordHits(paper, keywords) ==
    LET title == Lower(paper.title)
        text == Lower(paper.title \o <<" ">> \o paper.summary)
    IN  [i \in DOMAIN keywords |->
            IF Target(keywords[i]) = <<>>
            THEN [title_hits |-> 0, body_hits |-> 0]
            ELSE [title_hits |-> Count(title, Target(keywords[i])),
                  body_hits |-> Count(text, Target(keywords[i]))]]

\* KeywordScore counting each keyword once per field, however often it occurs
RECURSIVE KeywordScoreOncePerField(_, _)
KeywordScoreOncePerField(hits, k) ==
    IF k = 0 THEN 0
    ELSE TitleWeight * Min(hits[k].title_hits, 1) + BodyWeight * Min(hits[k].body_hits, 1)
         + KeywordScoreOncePerField(hits, k - 1)

\* the keyword loop's contribution to the score
RECURSIVE KeywordScore(_, _)
KeywordScore(hits, k) ==
    IF k = 0 THEN 0
    ELSE TitleWeight * hits[k].title_hits + BodyWeight * hits[k].body_hits
         + KeywordScore(hits, k - 1)

\* the keyword loop's matched_keywords
MatchedKeywords(hits) ==
    Cardinality({i \in DOMAIN hits : hits[i].title_hits > 0 \/ hits[i].body_hits > 0})

\* timedelta.days of (now - published): floor of the difference in days
DeltaDays(now, published) == (now - published) \div TicksPerDay

\* AgeDays with the age of the day of publication lost (> for >=)
AgeDaysAfterFirstDay(paper, reference) ==
    IF paper.published # None /\ DeltaDays(reference, paper.published) > 0
    THEN DeltaDays(reference, paper.published)
    ELSE None

AgeDays(paper, reference) ==
    IF paper.published # None /\ DeltaDays(reference, paper.published) >= 0
    THEN DeltaDays(reference, paper.published)
    ELSE None

\* RoundHalfEven cutting the digits after the second decimal
RoundDown(n, d) == n \div d

\* round(n / d, 2 decimals) on hundredths: nearest integer, ties to even
RoundHalfEven(n, d) ==
    LET q == n \div d
        r == n % d
    IN  IF 2 * r > d THEN q + 1
        ELSE IF 2 * r < d THEN q
        ELSE IF q % 2 = 0 THEN q ELSE q + 1

\* the score before rounding, as the fraction <<numerator, denominator>>
RawScore(paper, hits, age, recency_window) ==
    LET matched == MatchedKeywords(hits)
        base == KeywordScore(hits, Len(hits))
                + (IF paper.source_score # 0
                   THEN (100 * paper.source_score) \div HintDivisor ELSE 0)
                + (IF matched # 0 THEN MatchWeight * matched ELSE 0)
        window == Max(recency_window, WindowFloor)
    IN  IF age = None THEN <<base, 1>>
        ELSE <<base * window * (1 + age)
               + FreshWeight * Max(0, window - Min(age, window)) * (1 + age)
               + DecayWeight * window,
               window * (1 + age)>>

\* ComputeRelevance adding to the relevance the paper already has
ComputeRelevanceAccumulating(paper, keywords, recency_window, reference) ==
    LET hits == KeywordHits(paper, keywords)
        age == AgeDays(paper, reference)
        raw == RawScore(paper, hits, age, recency_window)
    IN  [paper EXCEPT !.age_days = age,
                      !.match_count = MatchedKeywords(hits),
                      !.relevance = paper.relevance + RoundHalfEven(raw[1], raw[2])]

\* compute_relevance: the paper with age_days, match_count and relevance set
ComputeRelevance(paper, keywords, recency_window, reference) ==
    LET hits == KeywordHits(paper, keywords)
        age == AgeDays(paper, reference)
        raw == RawScore(paper, hits, age, recency_window)
    IN  [paper EXCEPT !.age_days = age,
                      !.match_count = MatchedKeywords(hits),
                      !.relevance = RoundHalfEven(raw[1], raw[2])]

(***************************************************************************)
(* cli.py: _coverage_level and _bucket_by_coverage.                        *)
(***************************************************************************)
Levels == <<"full", "near", "partial", "single">>

\* CoverageLevel with "full" only above the keyword count (> for >=)
CoverageLevelAbove(paper, total_keywords) ==
    LET matched == Max(0, paper.match_count)
    IN  IF total_keywords <= 0
        THEN (IF paper.match_count > 0 THEN "full" ELSE "single")
        ELSE IF matched > total_keywords THEN "full"
        ELSE IF total_keywords > 2 /\ matched >= total_keywords - 1 THEN "near"
        ELSE IF matched >= 2 THEN "partial"
        ELSE "single"

\* CoverageLevel with the "partial" rule tried before the "near" rule
CoverageLevelPartialFirst(paper, total_keywords) ==
    LET matched == Max(0, paper.match_count)
    IN  IF total_keywords <= 0
        THEN (IF paper.match_count > 0 THEN "full" ELSE "single")
        ELSE IF matched >= total_keywords THEN "full"
        ELSE IF matched >= 2 THEN "partial"
        ELSE IF total_keywords > 2 /\ matched >= total_keywords - 1 THEN "near"
        ELSE "single"

CoverageLevel(paper, total_keywords) ==
    LET matched == Max(0, paper.match_count)
    IN  IF total_keywords <= 0
        THEN (IF paper.match_count > 0 THEN "full" ELSE "single")
        ELSE IF matched >= total_keywords THEN "full"
        ELSE IF total_keywords > 2 /\ matched >= total_keywords - 1 THEN "near"
        ELSE IF matched >= 2 THEN "partial"
        ELSE IF matched >= 1 THEN "single"
        ELSE "single"

\* the papers of one level, in the order of `papers`
RECURSIVE SelectLevel(_, _, _)
SelectLevel(papers, level, total_keywords) ==
    IF papers = <<>> THEN <<>>
    ELSE IF CoverageLevel(Head(papers), total_keywords) = level
         THEN <<Head(papers)>> \o SelectLevel(Tail(papers), level, total_keywords)
         ELSE SelectLevel(Tail(papers), level, total_keywords)

\* level -> bucket, for the levels whose bucket is not empty
BucketByCoverage(papers, total_keywords) ==
    LET present == {l \in {Levels[i] : i \in DOMAIN Levels} :
                        SelectLevel(papers, l, total_keywords) # <<>>}
    IN  [l \in present |-> SelectLevel(papers, l, total_keywords)]

(***************************************************************************)
(* reporting.py: _coverage_level and _group_by_coverage.                   *)
(***************************************************************************)
\* ReportCoverageLevel without the "near" rule
ReportCoverageLevelNoNear(paper, total_keywords) ==
    LET matched == Max(0, paper.match_count)
    IN  IF total_keywords <= 0 THEN "unmatched"
        ELSE IF matched >= total_keywords THEN "full"
        ELSE IF matched >= 2 THEN "partial"
        ELSE IF matched >= 1 THEN "single"
        ELSE "unmatched"

ReportCoverageLevel(paper, total_keywords) ==
    LET matched == Max(0, paper.match_count)
    IN  IF total_keywords <= 0 THEN "unmatched"
        ELSE IF matched >= total_keywords THEN "full"
        ELSE IF total_keywords > 2 /\ matched >= total_keywords - 1 THEN "near"
        ELSE IF matched >= 2 THEN "partial"
        ELSE IF matched >= 1 THEN "single"
        ELSE "unmatched"

\* the papers of one level of the report, in the order of `papers`
RECURSIVE ReportSelectLevel(_, _, _)
ReportSelectLevel(papers, level, total_keywords) ==
    IF papers = <<>> THEN <<>>
    ELSE IF ReportCoverageLevel(Head(papers), total_keywords) = level
         THEN <<Head(papers)>> \o ReportSelectLevel(Tail(papers), level, total_keywords)
         ELSE ReportSelectLevel(Tail(papers), level, total_keywords)

\* level -> group, for the four levels whose group is not empty; a group of
\* another level ("unmatched") is not returned
GroupByCoverage(papers, total_keywords) ==
    LET present == {l \in {Levels[i] : i \in DOMAIN Levels} :
                        ReportSelectLevel(papers, l, total_keywords) # <<>>}
    IN  [l \in present |-> ReportSelectLevel(papers, l, total_keywords)]

(***************************************************************************)
(* cli.py: _sort_papers.  A key is a tuple of components; a number is the  *)
(* one-element sequence of itself and a string the sequence of its code    *)
(* points, so that one lexicographic comparison serves both.               *)
(***************************************************************************)
UnknownAge == 1000000

age_value(paper) == IF paper.age_days # None THEN paper.age_days ELSE UnknownAge

SortKey(paper, strategy) ==
    IF strategy = "score"
    THEN << <<-paper.relevance>>, <<age_value(paper)>>, Codes(Lower(paper.title)) >>
    ELSE IF strategy = "recency"
    THEN << <<age_value(paper)>>, <<-paper.relevance>>, Codes(Lower(paper.title)) >>
    ELSE << Codes(Lower(paper.journal)), <<-paper.relevance>>, <<age_value(paper)>> >>

\* a < b for sequences of integers (Python's order on strings and on numbers)
RECURSIVE SeqLess(_, _)
SeqLess(a, b) ==
    IF b = <<>> THEN FALSE
    ELSE IF a = <<>> THEN TRUE
    ELSE IF Head(a) # Head(b) THEN Head(a) < Head(b)
    ELSE SeqLess(Tail(a), Tail(b))

\* a < b for keys (Python's order on tuples)
RECURSIVE KeyLess(_, _)
KeyLess(a, b) ==
    IF b = <<>> THEN FALSE
    ELSE IF a = <<>> THEN TRUE
    ELSE IF Head(a) # Head(b) THEN SeqLess(Head(a), Head(b))
    ELSE KeyLess(Tail(a), Tail(b))

\* insert into a sorted sequence after every element whose key is not greater
RECURSIVE InsertSorted(_, _, _)
InsertSorted(paper, sorted, strategy) ==
    IF sorted = <<>> THEN <<paper>>
    ELSE IF KeyLess(SortKey(paper, strategy), SortKey(Head(sorted), strategy))
         THEN <<paper>> \o sorted
         ELSE <<Head(sorted)>> \o InsertSorted(paper, Tail(sorted), strategy)

\* sorted(papers, key=key): a stable sort
RECURSIVE SortPapers(_, _)
SortPapers(papers, strategy) ==
    IF papers = <<>> THEN <<>>
    ELSE InsertSorted(papers[Len(papers)],
                      SortPapers(SubSeq(papers, 1, Len(papers) - 1), strategy),
                      strategy)

(***************************************************************************)
(* fetcher.py: _build_query.                                               *)
(***************************************************************************)
\* QuotedTerms with the empty terms kept
RECURSIVE QuotedTermsKeepEmpty(_)
QuotedTermsKeepEmpty(keywords) ==
    IF keywords = <<>> THEN <<>>
    ELSE LET term == Strip(Head(keywords))
         IN  IF \E i \in DOMAIN term : term[i] = " "
             THEN << <<"\"">> \o term \o <<"\"">> >> \o QuotedTermsKeepEmpty(Tail(keywords))
             ELSE <<term>> \o QuotedTermsKeepEmpty(Tail(keywords))

\* the terms of the keywords: stripped, empty ones dropped, quoted if " " in it
RECURSIVE QuotedTerms(_)
QuotedTerms(keywords) ==
    IF keywords = <<>> THEN <<>>
    ELSE LET term == Strip(Head(keywords))
         IN  IF term = <<>> THEN QuotedTerms(Tail(keywords))
             ELSE IF \E i \in DOMAIN term : term[i] = " "
                  THEN << <<"\"">> \o term \o <<"\"">> >> \o QuotedTerms(Tail(keywords))
                  ELSE <<term>> \o QuotedTerms(Tail(keywords))

\* " OR ".join(terms)
RECURSIVE JoinOr(_)
JoinOr(terms) ==
    IF Len(terms) = 1 THEN terms[1]
    ELSE terms[1] \o <<" ", "O", "R", " ">> \o JoinOr(Tail(terms))

\* the query as its segments, or the ValueError of an empty keyword list;
\* `now` is the clock read by the builder
BuildQuery(journal, keywords, days_back, now) ==
    LET quoted_terms == QuotedTerms(keywords)
        keyword_query == IF Len(quoted_terms) = 1 THEN quoted_terms[1]
                         ELSE <<"(">> \o JoinOr(quoted_terms) \o <<")">>
        end_date == now \div TicksPerDay
        start_date == end_date - days_back
    IN  IF quoted_terms = <<>>
        THEN [raised |-> "ValueError", segments |-> <<>>]
        ELSE [raised |-> "",
              segments |->
                << [clause |-> "keywords", text |-> keyword_query],
                   [clause |-> "JOURNAL", text |-> journal.container_title] >>
                \o (IF days_back > 0
                    THEN << [clause |-> "FIRST_PDATE",
                             range |-> <<start_date, end_date>>] >>
                    ELSE <<>>)]

(***************************************************************************)
(* fetcher.py: normalising one search hit into a Paper.                    *)
(* A hit is [title, abstractText, doi, pmcid, id, source,                  *)
(* firstPublicationDate, score]; an absent text field is the empty string, *)
(* an absent score is 0.  The character "<>" stands for one markup tag.    *)
(* A raw date is [form, first_day]: form "ymd", "ym" or "y" with the first *)
(* day of the period it names, "bad" for any other text, "" when absent.   *)
(***************************************************************************)
Tag == "<>"

\* the text between the tags, each piece stripped, empty pieces dropped
RECURSIVE TextPieces(_, _)
TextPieces(value, piece) ==
    IF value = <<>>
    THEN (IF Strip(piece) = <<>> THEN <<>> ELSE <<Strip(piece)>>)
    ELSE IF Head(value) = Tag
         THEN (IF Strip(piece) = <<>> THEN <<>> ELSE <<Strip(piece)>>)
              \o TextPieces(Tail(value), <<>>)
         ELSE TextPieces(Tail(value), Append(piece, Head(value)))

RECURSIVE JoinSpace(_)
JoinSpace(pieces) ==
    IF pieces = <<>> THEN <<>>
    ELSE IF Len(pieces) = 1 THEN pieces[1]
    ELSE pieces[1] \o <<" ">> \o JoinSpace(Tail(pieces))

\* _strip_html: soup.get_text(" ", strip=True); the empty string stands for None
StripHtml(value) == JoinSpace(TextPieces(value, <<>>))

\* _parse_date
ParseDate(raw) ==
    IF raw.form \in {"ymd", "ym", "y"} THEN raw.first_day * TicksPerDay ELSE None

\* the url of a hit: DOI, then PMC, then the Europe PMC page, else empty
ResolveUrl(item) ==
    IF item.doi # "" THEN <<"https://doi.org/", item.doi>>
    ELSE IF item.pmcid # ""
    THEN <<"https://www.ncbi.nlm.nih.gov/pmc/articles/", item.pmcid>>
    ELSE IF item.id # ""
    THEN <<"https://www.ebi.ac.uk/europepmc/article/", item.source, item.id>>
    ELSE <<>>

Untitled == <<"U", "n", "t", "i", "t", "l", "e", "d">>

\* the Paper of hit number i of the response to task j
NormaliseHit(journal, j, i, item) ==
    Paper(<<j, i>>,
          journal.name,
          IF StripHtml(item.title) # <<>> THEN StripHtml(item.title) ELSE Untitled,
          ResolveUrl(item),
          ParseDate(item.firstPublicationDate),
          StripHtml(item.abstractText),
          item.score)

MinPageSize == 25
MaxPageSize == 200

PageSize(max_results) == Max(MinPageSize, Min(max_results * 3, MaxPageSize))

\* fetch_for_journal after a successful response: the EuropePMCFetchResult
FetchResult(journal, j, results, max_results) ==
    LET papers == [i \in 1..Len(results) |-> NormaliseHit(journal, j, i, results[i])]
    IN  [journal |-> journal,
         papers |-> SubSeq(papers, 1, Min(Len(papers), max_results * 2))]

(***************************************************************************)
(* cli.py: the steps of `radar` after the fetch.                           *)
(***************************************************************************)
\* _normalise_keywords: stripped, empty ones dropped (empty result: BadParameter)
RECURSIVE NormaliseKeywords(_)
NormaliseKeywords(kws) ==
    IF kws = <<>> THEN <<>>
    ELSE (IF Strip(Head(kws)) # <<>> THEN <<Strip(Head(kws))>> ELSE <<>>)
         \o NormaliseKeywords(Tail(kws))

\* papers.extend(result.papers) over the chunks that have papers
RECURSIVE MergePapers(_)
MergePapers(chunks) ==
    IF chunks = <<>> THEN <<>>
    ELSE Head(chunks).papers \o MergePapers(Tail(chunks))

\* the names of the journals whose chunk has no paper
RECURSIVE EmptyJournals(_)
EmptyJournals(chunks) ==
    IF chunks = <<>> THEN <<>>
    ELSE (IF Head(chunks).papers = <<>> THEN <<Head(chunks).journal.name>> ELSE <<>>)
         \o EmptyJournals(Tail(chunks))

RecencyWindow(d) == IF d > 0 THEN d ELSE 0

\* ScorePapers leaving the last paper as it is
ScoreAllButLast(ps, kws, d, reference) ==
    [i \in 1..Len(ps) |->
        IF i < Len(ps) THEN ComputeRelevance(ps[i], kws, RecencyWindow(d), reference)
        ELSE ps[i]]

\* the scoring loop
ScorePapers(ps, kws, d, reference) ==
    [i \in 1..Len(ps) |-> ComputeRelevance(ps[i], kws, RecencyWindow(d), reference)]

\* Keeps with a paper of unknown age taken for one outside the day window
KeepsKnownAgeOnly(paper, d) ==
    /\ paper.url # <<>>
    /\ ~(d > 0 /\ (paper.age_days = None \/ paper.age_days > d))
    /\ paper.match_count # 0

\* Keeps without the test of match_count
KeepsUnmatched(paper, d) ==
    /\ paper.url # <<>>
    /\ ~(d > 0 /\ paper.age_days # None /\ paper.age_days > d)

\* Keeps with the age test applied whatever the day window
KeepsAgeAlways(paper, d) ==
    /\ paper.url # <<>>
    /\ ~(paper.age_days # None /\ paper.age_days > d)
    /\ paper.match_count # 0

\* one paper passes the post-fetch filter
Keeps(paper, d) ==
    /\ paper.url # <<>>
    /\ ~(d > 0 /\ paper.age_days # None /\ paper.age_days > d)
    /\ paper.match_count # 0

\* the filter loop
RECURSIVE FilterPapers(_, _)
FilterPapers(ps, d) ==
    IF ps = <<>> THEN <<>>
    ELSE (IF Keeps(Head(ps), d) THEN <<Head(ps)>> ELSE <<>>)
         \o FilterPapers(Tail(ps), d)

\* Seed without the test of the limit
RECURSIVE SeedNoCap(_, _, _, _)
SeedNoCap(k, buckets, sel, limit) ==
    IF k > Len(Levels) THEN sel
    ELSE IF Levels[k] \in DOMAIN buckets
         THEN SeedNoCap(k + 1, buckets, Append(sel, Head(buckets[Levels[k]])), limit)
         ELSE SeedNoCap(k + 1, buckets, sel, limit)

\* the seeding loop over the levels from number k on
RECURSIVE Seed(_, _, _, _)
Seed(k, buckets, sel, limit) ==
    IF k > Len(Levels) THEN sel
    ELSE IF Levels[k] \in DOMAIN buckets /\ Len(sel) < limit
         THEN Seed(k + 1, buckets, Append(sel, Head(buckets[Levels[k]])), limit)
         ELSE Seed(k + 1, buckets, sel, limit)

\* Fill leaving the last slot empty
RECURSIVE FillStopsEarly(_, _, _)
FillStopsEarly(rest, sel, limit) ==
    IF rest = <<>> \/ Len(sel) >= limit - 1 THEN sel
    ELSE IF \E i \in DOMAIN sel : sel[i].id = Head(rest).id
         THEN FillStopsEarly(Tail(rest), sel, limit)
         ELSE FillStopsEarly(Tail(rest), Append(sel, Head(rest)), limit)

\* Fill without the test of the papers already selected
RECURSIVE FillNoSkip(_, _, _)
FillNoSkip(rest, sel, limit) ==
    IF rest = <<>> \/ Len(sel) >= limit THEN sel
    ELSE FillNoSkip(Tail(rest), Append(sel, Head(rest)), limit)

\* the filling loop over the sorted papers
RECURSIVE Fill(_, _, _)
Fill(rest, sel, limit) ==
    IF rest = <<>> \/ Len(sel) >= limit THEN sel
    ELSE IF \E i \in DOMAIN sel : sel[i].id = Head(rest).id
         THEN Fill(Tail(rest), sel, limit)
         ELSE Fill(Tail(rest), Append(sel, Head(rest)), limit)

\* SelectPapers with the strict mode cutting the sorted list, not the full bucket
SelectStrictFromSorted(sorted, buckets, coverage, limit) ==
    IF coverage = "full"
    THEN SubSeq(sorted, 1, Min(limit, Len(sorted)))
    ELSE Fill(sorted, Seed(1, buckets, <<>>, limit), limit)

\* SelectPapers without the seeding: the head of the sorted list
SelectTopOnly(sorted, buckets, coverage, limit) ==
    IF coverage = "full"
    THEN (IF "full" \in DOMAIN buckets
          THEN SubSeq(buckets["full"], 1, Min(limit, Len(buckets["full"])))
          ELSE <<>>)
    ELSE Fill(sorted, <<>>, limit)

\* the selection of lines 273-291
SelectPapers(sorted, buckets, coverage, limit) ==
    IF coverage = "full"
    THEN (IF "full" \in DOMAIN buckets
          THEN SubSeq(buckets["full"], 1, Min(limit, Len(buckets["full"])))
          ELSE <<>>)
    ELSE Fill(sorted, Seed(1, buckets, <<>>, limit), limit)

\* lines 244-293 as one function of the chunks
Pipeline(chunks, kws, d, strategy, coverage, limit, reference) ==
    LET sorted == SortPapers(
                    FilterPapers(ScorePapers(MergePapers(chunks), kws, d, reference), d),
                    strategy)
    IN  SelectPapers(sorted, BucketByCoverage(sorted, Len(kws)), coverage, limit)

(***************************************************************************)
(* The inputs of a run.                                                    *)
(***************************************************************************)
Hit(title, abstractText, doi, pmcid, id, date, score) ==
    [title |-> title, abstractText |-> abstractText, doi |-> doi, pmcid |-> pmcid,
     id |-> id, source |-> "MED", firstPublicationDate |-> date, score |-> score]

Date(form, first_day) == [form |-> form, first_day |-> first_day]

\* the journals that can be asked for, and for each the search hits the
\* index has of it, in the order of the index
JournalTable ==
    << JournalConfig(<<"c">>, <<"C">>),
       JournalConfig(<<"n">>, <<"n">>),
       JournalConfig(<<"N">>, <<"N">>) >>

Corpus ==
    << << Hit(<<"a", "b", "c", "d">>, <<>>, "10.1/1", "", "1", Date("ymd", Today), 0),
          Hit(<<Tag, "a", "b", Tag, "c">>, <<>>, "", "PMC2", "2",
              Date("ym", Today - 40), 15),
          Hit(<<"A", "b">>, <<>>, "", "", "3", Date("", 0), 0),
          Hit(<<"a">>, <<>>, "10.1/4", "", "4", Date("ymd", Today + 1), 0) >>,
       << Hit(<<"A">>, <<>>, "10.1/5", "", "5", Date("bad", 0), 0),
          Hit(<<"d">>, <<"d", " ", "d">>, "10.1/6", "", "6", Date("ymd", Today), 0),
          Hit(<<Tag>>, <<"b", " ", "a">>, "", "", "", Date("y", Today - 10), 0) >>,
       << Hit(<<"a">>, <<>>, "10.1/8", "", "8", Date("", 0), 0) >> >>

\* the number in the table of a journal
TableIndex(journal) == CHOOSE t \in DOMAIN JournalTable : JournalTable[t] = journal

\* the responses to the request for journal number j of the table: a page of
\* at most `budget` consecutive hits of the journal
Responses(j, budget) ==
    {SubSeq(Corpus[j], page[1], page[2]) :
        page \in {p \in (1..Len(Corpus[j])) \X (0..Len(Corpus[j])) :
                     /\ p[1] <= p[2] + 1
                     /\ p[2] - p[1] + 1 <= budget}}

KeywordTable == << <<" ", "A", "\t">>, <<"b">>, <<"c">>, <<"d">>, <<"e">>, <<"x">> >>

\* the --keyword values tried: the first n keywords of the table, and a list
\* with no keyword in it
KeywordChoices ==
    {SubSeq(KeywordTable, 1, n) : n \in 1..MaxKeywords} \cup { << <<" ">> >> }

\* the --journal values tried: up to MaxJournals journals that follow each
\* other in the table
JournalChoices ==
    {SubSeq(JournalTable, w[1], w[2]) :
        w \in {v \in (DOMAIN JournalTable) \X (DOMAIN JournalTable) :
                  v[1] <= v[2] /\ v[2] - v[1] < MaxJournals}}

DayChoices == {0, 30}

SortStrategy == {"score", "recency", "journal"}

CoverageFilter == {"all", "full"}

\* the clock of the run
Clock == Today * TicksPerDay + 1

(***************************************************************************)
(* The state of a run.                                                     *)
(***************************************************************************)
VARIABLES
    keywords,           \* --keyword
    journal_configs,    \* the resolved journals
    max_results,        \* --limit
    days,               \* --days
    sort_strategy,      \* --sort, "" until it is read
    coverage_filter,    \* --coverage, "" until it is read
    pc,                 \* where `radar` is
    exit_code,          \* None while running
    keyword_list,
    tasks,              \* the tasks of _fetch_with_progress, one per journal
    finished,           \* the finished tasks as_completed has not yielded yet
    combined,
    journal_chunks,
    papers,
    empty_journals,
    now,
    ordered,
    coverage_buckets,
    selected,
    call                \* a function called on its own: its arguments and result

vars == <<keywords, journal_configs, max_results, days, sort_strategy,
          coverage_filter, pc, exit_code, keyword_list, tasks, finished, combined,
          journal_chunks, papers, empty_journals, now, ordered, coverage_buckets,
          selected, call>>

\* the options read before the fetch, and the two read after it
options == <<keywords, journal_configs, max_results, days, call>>
presentation == <<sort_strategy, coverage_filter>>

Init ==
    /\ keywords \in KeywordChoices
    /\ journal_configs \in JournalChoices
    /\ max_results \in 1..MaxLimit
    /\ days \in DayChoices
    /\ sort_strategy = ""
    /\ coverage_filter = ""
    /\ pc = "start"
    /\ exit_code = None
    /\ keyword_list = <<>>
    /\ tasks = <<>>
    /\ finished = <<>>
    /\ combined = <<>>
    /\ journal_chunks = <<>>
    /\ papers = <<>>
    /\ empty_journals = <<>>
    /\ now = None
    /\ ordered = <<>>
    /\ coverage_buckets = <<>>
    /\ selected = <<>>
    /\ call = [fn |-> ""]

\* the hits the finished tasks were answered with
HitsUsed ==
    LET RECURSIVE Sum(_)
        Sum(k) == IF k = 0 THEN 0 ELSE Len(tasks[k].results) + Sum(k - 1)
    IN  Sum(Len(tasks))

(***************************************************************************)
(* The steps of a run.                                                     *)
(***************************************************************************)
\* line 204: keyword_list = _normalise_keywords(keywords)
Normalise ==
    /\ pc = "start"
    /\ keyword_list' = NormaliseKeywords(keywords)
    /\ IF NormaliseKeywords(keywords) = <<>>
       THEN pc' = "exit" /\ exit_code' = 2
       ELSE pc' = "create" /\ exit_code' = exit_code
    /\ UNCHANGED <<options, presentation, tasks, finished, combined, journal_chunks, papers,
                   empty_journals, now, ordered, coverage_buckets, selected>>

\* line 120: one task per journal; each runs to its `await client.get`
CreateTasks ==
    /\ pc = "create"
    /\ tasks' = [j \in 1..Len(journal_configs) |->
                    [status |-> "pending",
                     query |-> BuildQuery(journal_configs[j], keyword_list, days, Clock),
                     pageSize |-> PageSize(max_results),
                     results |-> <<>>,
                     result |-> [journal |-> journal_configs[j], papers |-> <<>>]]]
    /\ pc' = "gather"
    /\ UNCHANGED <<options, presentation, exit_code, keyword_list, finished, combined,
                   journal_chunks, papers, empty_journals, now, ordered,
                   coverage_buckets, selected>>

\* the request of task j is answered with hits: the task returns its result
Respond(j) ==
    /\ pc = "gather"
    /\ tasks[j].status = "pending"
    /\ \E results \in Responses(TableIndex(journal_configs[j]), MaxHits - HitsUsed) :
         tasks' = [tasks EXCEPT ![j] =
                     [@ EXCEPT !.status = "done",
                               !.results = results,
                               !.result = FetchResult(journal_configs[j], j, results,
                                                      max_results)]]
    /\ finished' = Append(finished, j)
    /\ UNCHANGED <<options, presentation, pc, exit_code, keyword_list, combined, journal_chunks,
                   papers, empty_journals, now, ordered, coverage_buckets, selected>>

\* the request of task j fails (transport error, or raise_for_status)
RespondError(j) ==
    /\ pc = "gather"
    /\ tasks[j].status = "pending"
    /\ tasks' = [tasks EXCEPT ![j] = [@ EXCEPT !.status = "failed"]]
    /\ finished' = Append(finished, j)
    /\ UNCHANGED <<options, presentation, pc, exit_code, keyword_list, combined, journal_chunks,
                   papers, empty_journals, now, ordered, coverage_buckets, selected>>

\* Collect returning after the first result, whatever is still pending
CollectFirstOnly ==
    /\ pc = "gather"
    /\ finished # <<>>
    /\ tasks[Head(finished)].status = "done"
    /\ finished' = Tail(finished)
    /\ combined' = Append(combined, tasks[Head(finished)].result)
    /\ journal_chunks' = combined'
    /\ pc' = "merge"
    /\ UNCHANGED <<options, presentation, exit_code, keyword_list, tasks, papers,
                   empty_journals, now, ordered, coverage_buckets, selected>>

\* Collect taking the results in the order of the requests, as if every
\* task had finished
CollectInRequestOrder ==
    /\ pc = "gather"
    /\ finished # <<>>
    /\ tasks[Head(finished)].status = "done"
    /\ finished' = Tail(finished)
    /\ combined' = Append(combined, tasks[Len(combined) + 1].result)
    /\ IF Len(combined') = Len(tasks)
       THEN journal_chunks' = combined' /\ pc' = "merge"
       ELSE journal_chunks' = journal_chunks /\ pc' = pc
    /\ UNCHANGED <<options, presentation, exit_code, keyword_list, tasks, papers,
                   empty_journals, now, ordered, coverage_buckets, selected>>

\* lines 125-133: as_completed yields the next finished task; its result is
\* appended, and after the last one `combined` is returned to line 237
Collect ==
    /\ pc = "gather"
    /\ finished # <<>>
    /\ tasks[Head(finished)].status = "done"
    /\ finished' = Tail(finished)
    /\ combined' = Append(combined, tasks[Head(finished)].result)
    /\ IF Len(combined') = Len(tasks)
       THEN journal_chunks' = combined' /\ pc' = "merge"
       ELSE journal_chunks' = journal_chunks /\ pc' = pc
    /\ UNCHANGED <<options, presentation, exit_code, keyword_list, tasks, papers, empty_journals,
                   now, ordered, coverage_buckets, selected>>

\* CollectError swallowing the error: what was collected so far is returned
CollectErrorPartial ==
    /\ pc = "gather"
    /\ finished # <<>>
    /\ tasks[Head(finished)].status = "failed"
    /\ finished' = Tail(finished)
    /\ journal_chunks' = combined
    /\ pc' = "merge"
    /\ UNCHANGED <<options, presentation, exit_code, keyword_list, tasks, combined,
                   papers, empty_journals, now, ordered, coverage_buckets, selected>>

\* line 126 raises the error of a failed task: asyncio.run cancels the tasks
\* still pending, lines 240-242 exit with status 1
CollectError ==
    /\ pc = "gather"
    /\ finished # <<>>
    /\ tasks[Head(finished)].status = "failed"
    /\ finished' = Tail(finished)
    /\ tasks' = [j \in DOMAIN tasks |->
                    IF tasks[j].status = "pending"
                    THEN [tasks[j] EXCEPT !.status = "cancelled"]
                    ELSE tasks[j]]
    /\ pc' = "exit"
    /\ exit_code' = 1
    /\ UNCHANGED <<options, presentation, keyword_list, combined, journal_chunks, papers,
                   empty_journals, now, ordered, coverage_buckets, selected>>

\* lines 244-250
Merge ==
    /\ pc = "merge"
    /\ papers' = MergePapers(journal_chunks)
    /\ empty_journals' = EmptyJournals(journal_chunks)
    /\ pc' = "score"
    /\ UNCHANGED <<options, presentation, exit_code, keyword_list, tasks, finished, combined,
                   journal_chunks, now, ordered, coverage_buckets, selected>>

\* lines 252-255
Score ==
    /\ pc = "score"
    /\ now' = Clock
    /\ papers' = ScorePapers(papers, keyword_list, days, Clock)
    /\ pc' = "filter"
    /\ UNCHANGED <<options, presentation, exit_code, keyword_list, tasks, finished, combined,
                   journal_chunks, empty_journals, ordered, coverage_buckets, selected>>

\* lines 257-267
Filter ==
    /\ pc = "filter"
    /\ papers' = FilterPapers(papers, days)
    /\ pc' = "sort"
    /\ UNCHANGED <<options, presentation, exit_code, keyword_list, tasks, finished, combined,
                   journal_chunks, empty_journals, now, ordered, coverage_buckets,
                   selected>>

\* lines 269-271; --sort is read here for the first time
Sort ==
    /\ pc = "sort"
    /\ sort_strategy' \in SortStrategy
    /\ ordered' = SortPapers(papers, sort_strategy')
    /\ coverage_buckets' = BucketByCoverage(ordered', Len(keyword_list))
    /\ pc' = "select"
    /\ UNCHANGED <<options, coverage_filter, exit_code, keyword_list, tasks,
                   finished, combined, journal_chunks, papers, empty_journals, now,
                   selected>>

\* lines 273-293; --coverage is read here for the first time
Select ==
    /\ pc = "select"
    /\ coverage_filter' \in CoverageFilter
    /\ selected' = SelectPapers(ordered, coverage_buckets, coverage_filter',
                                max_results)
    /\ pc' = "report"
    /\ UNCHANGED <<options, sort_strategy, exit_code, keyword_list, tasks, finished,
                   combined, journal_chunks, papers, empty_journals, now, ordered,
                   coverage_buckets>>

\* lines 295-335: the report is rendered, with the selected papers in the
\* groups of reporting._group_by_coverage, and the command returns
Report ==
    /\ pc = "report"
    /\ call' = [fn |-> "render_report",
                groups |-> GroupByCoverage(selected, Len(keyword_list))]
    /\ pc' = "exit"
    /\ exit_code' = 0
    /\ UNCHANGED <<keywords, journal_configs, max_results, days, presentation,
                   keyword_list, tasks, finished, combined, journal_chunks,
                   papers, empty_journals, now, ordered, coverage_buckets, selected>>

Next ==
    \/ Normalise
    \/ CreateTasks
    \/ \E j \in DOMAIN tasks : Respond(j)
    \/ \E j \in DOMAIN tasks : RespondError(j)
    \/ Collect
    \/ CollectError
    \/ Merge
    \/ Score
    \/ Filter
    \/ Sort
    \/ Select
    \/ Report

Spec == Init /\ [][Next]_vars

(***************************************************************************)
(* _coverage_level called on its own, on every match count and keyword     *)
(* count up to MaxMatch.                                                   *)
(***************************************************************************)
run == <<keywords, journal_configs, max_results, days, presentation, pc, exit_code,
         keyword_list, tasks, finished, combined, journal_chunks, papers,
         empty_journals, now, ordered, coverage_buckets, selected>>

NoRun ==
    /\ keywords = <<>>
    /\ journal_configs = <<>>
    /\ max_results = 1
    /\ days = 0
    /\ sort_strategy = ""
    /\ coverage_filter = ""
    /\ pc = "call"
    /\ exit_code = None
    /\ keyword_list = <<>>
    /\ tasks = <<>>
    /\ finished = <<>>
    /\ combined = <<>>
    /\ journal_chunks = <<>>
    /\ papers = <<>>
    /\ empty_journals = <<>>
    /\ now = None
    /\ ordered = <<>>
    /\ coverage_buckets = <<>>
    /\ selected = <<>>

InitClassify ==
    /\ NoRun
    /\ \E m \in 0..MaxMatch, k \in 0..MaxMatch :
         call = [fn |-> "_coverage_level", match_count |-> m, total_keywords |-> k,
                 ret |-> ""]

Classify ==
    /\ call.fn = "_coverage_level"
    /\ call.ret = ""
    /\ call' = [call EXCEPT !.ret = CoverageLevel([match_count |-> call.match_count],
                                                  call.total_keywords)]
    /\ UNCHANGED run

NextClassify == Classify

SpecClassify == InitClassify /\ [][NextClassify]_vars

(***************************************************************************)
(* compute_relevance called on its own, twice on the same paper with the   *)
(* same arguments.  The paper may come with values left in the three       *)
(* fields the scorer owns.                                                 *)
(***************************************************************************)
ScoreTitles == { <<"a">>, <<"a", " ", "a">>, <<"A", "b">>, <<"x">> }

ScoreSummaries == { <<>>, <<"a">>, <<"a", " ", "b">> }

\* published: absent, 40 and 10 days before the run, the day of the run, the
\* day after
ScorePublished ==
    {None} \cup {(Today - back) * TicksPerDay : back \in {40, 10, 0, -1}}

\* a paper as the fetcher makes it
FreshPapers ==
    {Paper(<<1, 1>>, <<"c">>, title, <<"u">>, published, summary, source_score) :
        title \in ScoreTitles, summary \in ScoreSummaries,
        published \in ScorePublished, source_score \in {0, 15}}

\* the same paper after some earlier scoring
Stale(paper) == [paper EXCEPT !.relevance = 999, !.age_days = 3, !.match_count = 2]

WindowChoices == {0, 30, 60}

InitScore ==
    /\ NoRun
    /\ \E paper \in FreshPapers, stale \in BOOLEAN, kws \in KeywordChoices,
          window \in WindowChoices :
         call = [fn |-> "compute_relevance",
                 paper |-> IF stale THEN Stale(paper) ELSE paper,
                 keywords |-> kws, recency_window |-> window, reference |-> Clock,
                 calls |-> 0, ret |-> None, first |-> None]

\* one call of compute_relevance(paper, keywords, recency_window, reference);
\* `first` keeps what the first call returned
ScoreCall ==
    /\ call.fn = "compute_relevance"
    /\ call.calls < 2
    /\ LET scored == ComputeRelevance(call.paper, call.keywords, call.recency_window,
                                      call.reference)
       IN  call' = [call EXCEPT !.paper = scored,
                                !.ret = scored.relevance,
                                !.calls = @ + 1,
                                !.first = IF call.calls = 0 THEN scored ELSE @]
    /\ UNCHANGED run

NextScore == ScoreCall

SpecScore == InitScore /\ [][NextScore]_vars

(***************************************************************************)
(* fetch_for_journal called on its own, with keywords as the caller gives  *)
(* them: padded, blank, with a space or a tab inside.                      *)
(***************************************************************************)
RawKeywords ==
    { <<" ", "A", "\t">>, <<"a", " ", "b">>, <<"a", "\t", "b">>, <<"b">>,
      <<" ", "\t">>, <<>> }

RECURSIVE SeqsUpTo(_, _)
SeqsUpTo(S, n) ==
    IF n = 0 THEN { <<>> }
    ELSE SeqsUpTo(S, n - 1)
         \cup {Append(q, x) : q \in {r \in SeqsUpTo(S, n - 1) : Len(r) = n - 1}, x \in S}

QueryKeywordChoices == SeqsUpTo(RawKeywords, MaxQueryKeywords)

InitFetch ==
    /\ NoRun
    /\ \E journal \in Range(JournalTable), kws \in QueryKeywordChoices,
          days_back \in DayChoices, limit \in 1..MaxLimit :
         call = [fn |-> "fetch_for_journal", journal |-> journal, keywords |-> kws,
                 days_back |-> days_back, max_results |-> limit,
                 at |-> "start", raised |-> "", requests |-> <<>>, returned |-> <<>>]

\* lines 127-137: the query is built; a ValueError leaves the function, else
\* the request is sent and the function waits for the response
FetchBuild ==
    /\ call.fn = "fetch_for_journal"
    /\ call.at = "start"
    /\ LET query == BuildQuery(call.journal, call.keywords, call.days_back, Clock)
       IN  IF query.raised # ""
           THEN call' = [call EXCEPT !.at = "raised", !.raised = query.raised]
           ELSE call' = [call EXCEPT !.at = "await",
                                     !.requests = Append(@,
                                         [query |-> query.segments,
                                          pageSize |-> PageSize(call.max_results)])]
    /\ UNCHANGED run

\* lines 138-174: the response arrives and the EuropePMCFetchResult is returned
FetchRespond ==
    /\ call.fn = "fetch_for_journal"
    /\ call.at = "await"
    /\ \E results \in Responses(TableIndex(call.journal), MaxHits) :
         call' = [call EXCEPT !.at = "returned",
                              !.returned = Append(@, FetchResult(call.journal, 1, results,
                                                                 call.max_results))]
    /\ UNCHANGED run

\* lines 137-138: the request fails
FetchFail ==
    /\ call.fn = "fetch_for_journal"
    /\ call.at = "await"
    /\ call' = [call EXCEPT !.at = "raised", !.raised = "HTTPError"]
    /\ UNCHANGED run

NextFetch == FetchBuild \/ FetchRespond \/ FetchFail

SpecFetch == InitFetch /\ [][NextFetch]_vars

(***************************************************************************)
(* Properties of a run.                                                    *)
(***************************************************************************)

\* the selection has been made
Selected == pc = "report" \/ (pc = "exit" /\ exit_code = 0)

\* the coverage levels of the papers of a list
Tiers(ps) == {CoverageLevel(ps[i], Len(keyword_list)) : i \in DOMAIN ps}

\* the fetched papers as they are after scoring
Scored == ScorePapers(MergePapers(journal_chunks), keyword_list, days, Clock)

SomeFailed == \E j \in DOMAIN tasks : tasks[j].status = "failed"

\* C1: whatever the sort, the coverage filter and the limit, the selected list
\* has at most `limit` papers.
C1_SelectionBound == Selected => Len(selected) <= max_results

\* C1 witness: more candidates and more tiers than the limit, and the limit reached
C1_Witness ==
    /\ pc = "report"
    /\ coverage_filter = "all"
    /\ Cardinality(Tiers(papers)) > max_results
    /\ Len(selected) = max_results

\* C2: with --coverage all, when the limit is at least the number of tiers
\* that have a candidate, every such tier has a paper in the selected list.
C2_EveryTierRepresented ==
    (Selected /\ coverage_filter = "all" /\ Cardinality(Tiers(papers)) <= max_results)
        => Tiers(papers) \subseteq Tiers(selected)

\* C2 witness: the four tiers have a candidate and the limit is 4 or more
C2_Witness ==
    /\ pc = "report"
    /\ coverage_filter = "all"
    /\ Tiers(papers) = Range(Levels)
    /\ max_results >= 4
    /\ Tiers(selected) = Range(Levels)

\* C3: once the request of one source has failed, no list of chunks is
\* returned, nothing is merged, scored, sorted or selected, the error is
\* waiting to be raised, and the run can only end with status 1.
C3_FailureIsFatal ==
    SomeFailed =>
        /\ journal_chunks = <<>>
        /\ papers = <<>> /\ ordered = <<>> /\ selected = <<>>
        /\ now = None
        /\ pc \in {"gather", "exit"}
        /\ pc = "gather" => \E i \in DOMAIN finished : tasks[finished[i]].status = "failed"
        /\ pc = "exit" => exit_code = 1
        /\ exit_code \in {None, 1}

\* C3 witness: the run has ended with status 1 after another source had
\* answered with papers and its result had been collected
C3_Witness ==
    /\ SomeFailed
    /\ pc = "exit"
    /\ exit_code = 1
    /\ \E i \in DOMAIN combined : combined[i].papers # <<>>

\* C4: when the chunks are returned there is exactly one per journal, and the
\* chunk of a journal holds the papers of the response to that journal's own
\* request, whatever the order in which the requests were answered.
C4_OneOutcomePerSource ==
    pc \notin {"start", "create", "gather", "exit", "call"} =>
        /\ Len(journal_chunks) = Len(journal_configs)
        /\ \A j \in DOMAIN journal_configs :
             /\ Cardinality({i \in DOMAIN journal_chunks :
                                journal_chunks[i].journal = journal_configs[j]}) = 1
             /\ \A i \in DOMAIN journal_chunks :
                  journal_chunks[i].journal = journal_configs[j] =>
                    /\ Len(journal_chunks[i].papers)
                         = Min(Len(tasks[j].results), 2 * max_results)
                    /\ \A k \in DOMAIN journal_chunks[i].papers :
                         /\ journal_chunks[i].papers[k].id = <<j, k>>
                         /\ journal_chunks[i].papers[k].journal = journal_configs[j].name
                         /\ journal_chunks[i].papers[k].url = ResolveUrl(tasks[j].results[k])

\* C4 witness: two sources answered with papers, the second one first
C4_Witness ==
    /\ pc = "merge"
    /\ Len(journal_chunks) = 2
    /\ journal_chunks[1].journal = journal_configs[2]
    /\ journal_chunks[1].papers # <<>>
    /\ journal_chunks[2].papers # <<>>

\* the chunks in another order of completion
Reordered(chunks) ==
    {[i \in DOMAIN chunks |-> chunks[f[i]]] : f \in Permutations(DOMAIN chunks)}

\* C5: the sort keys order the papers totally, so the selected list is the
\* same for every order in which the same responses could have arrived.
C5_SameForEveryCompletionOrder ==
    pc = "report" =>
        \A chunks \in Reordered(journal_chunks) :
            Pipeline(chunks, keyword_list, days, sort_strategy, coverage_filter,
                     max_results, now) = selected

\* C8: no selected paper has an empty url or no matched keyword, or an age
\* above a positive --days.
C8_SelectedPassFilter ==
    Selected =>
        \A i \in DOMAIN selected :
            /\ selected[i].url # <<>>
            /\ selected[i].match_count # 0
            /\ ~(days > 0 /\ selected[i].age_days # None /\ selected[i].age_days > days)

\* C8 witness: papers were selected while a fetched paper without url, one
\* without a match and one older than --days were left out below the limit
C8_Witness ==
    /\ pc = "report"
    /\ days > 0
    /\ coverage_filter = "all"
    /\ selected # <<>>
    /\ Len(selected) < max_results
    /\ \E i \in DOMAIN Scored : Scored[i].url = <<>> /\ Scored[i].match_count > 0
    /\ \E i \in DOMAIN Scored : Scored[i].url # <<>> /\ Scored[i].match_count = 0
    /\ \E i \in DOMAIN Scored : Scored[i].age_days # None /\ Scored[i].age_days > days

\* C9: with --days 0 no query has a date clause, and the filter step keeps
\* every paper that has a url and a matched keyword, whatever its age.
C9_NoDateFilterAtZero ==
    /\ [](days = 0 =>
            \A j \in DOMAIN tasks : \A k \in DOMAIN tasks[j].query.segments :
                tasks[j].query.segments[k].clause # "FIRST_PDATE")
    /\ [][(pc = "filter" /\ days = 0) =>
            \A i \in DOMAIN papers :
                (papers[i].url # <<>> /\ papers[i].match_count >= 1)
                    => papers[i] \in Range(papers')]_vars

\* C9 witness: with --days 0 a paper older than the scorer's window is
\* still there after the filter, and the queries were built
C9_Witness ==
    /\ pc = "sort"
    /\ days = 0
    /\ tasks # <<>>
    /\ \E i \in DOMAIN papers : papers[i].age_days > WindowFloor

\* C10: after scoring, age_days is None exactly when published is None or
\* later than the reference time, and otherwise it is the number of whole
\* days from published to the reference time, which is not negative.
C10_AgeDays ==
    now # None =>
        \A i \in DOMAIN papers :
            LET p == papers[i] IN
            /\ (p.age_days = None) <=> (p.published = None \/ p.published > now)
            /\ p.age_days # None =>
                 /\ p.age_days >= 0
                 /\ p.age_days * TicksPerDay <= now - p.published
                 /\ now - p.published < (p.age_days + 1) * TicksPerDay

\* C10 witness: scored papers without date, with a date in the future, of
\* the running day and of an earlier day
C10_Witness ==
    /\ pc = "filter"
    /\ \E i \in DOMAIN papers : papers[i].published = None
    /\ \E i \in DOMAIN papers : papers[i].published > now
    /\ \E i \in DOMAIN papers : papers[i].age_days = 0 /\ papers[i].published < now
    /\ \E i \in DOMAIN papers : papers[i].age_days > 0

\* the list is in the order of the strategy: no paper has a key below the
\* key of a paper before it
InOrder(ps, strategy) ==
    \A i, j \in DOMAIN ps :
        i < j => ~KeyLess(SortKey(ps[j], strategy), SortKey(ps[i], strategy))

\* the positions in `ordered` of the papers of a level
Positions(level) ==
    {i \in DOMAIN ordered : CoverageLevel(ordered[i], Len(keyword_list)) = level}

\* C14: with --coverage full the selected list is the first
\* min(limit, number of full papers) papers of level "full" of the candidates
\* in the order of the sort, and holds no paper of another level.
C14_StrictTakesFullOnly ==
    (Selected /\ coverage_filter = "full") =>
        /\ InOrder(ordered, sort_strategy)
        /\ Range(ordered) = Range(papers) /\ Len(ordered) = Len(papers)
        /\ Len(selected) = Min(max_results, Cardinality(Positions("full")))
        /\ \A k \in DOMAIN selected :
             /\ CoverageLevel(selected[k], Len(keyword_list)) = "full"
             /\ \E i \in Positions("full") :
                  /\ selected[k] = ordered[i]
                  /\ Cardinality({h \in Positions("full") : h < i}) = k - 1

\* C14 witness: strict mode with candidates of other levels and more full
\* papers than the limit
C14_Witness ==
    /\ pc = "report"
    /\ coverage_filter = "full"
    /\ Positions("full") # DOMAIN ordered
    /\ Cardinality(Positions("full")) > max_results
    /\ Len(selected) = max_results

\* C15: with --coverage all, when the candidates are all of one level, the
\* selected list is the first min(limit, n) papers of the sorted list, in
\* its order.
C15_OneTierTakesSortedPrefix ==
    (Selected /\ coverage_filter = "all" /\ Cardinality(Tiers(papers)) = 1) =>
        /\ InOrder(ordered, sort_strategy)
        /\ Range(ordered) = Range(papers) /\ Len(ordered) = Len(papers)
        /\ Len(selected) = Min(max_results, Len(ordered))
        /\ \A k \in DOMAIN selected : selected[k] = ordered[k]

\* C15 witness: limit 3, only level "full" populated, with more than 3 papers
C15_Witness ==
    /\ pc = "report"
    /\ coverage_filter = "all"
    /\ max_results = 3
    /\ Tiers(papers) = {"full"}
    /\ Len(ordered) > 3
    /\ selected = SubSeq(ordered, 1, 3)

\* C16: under --sort journal no paper of another journal lies between two
\* papers of one journal in the sorted list.
C16_JournalsContiguous ==
    (pc \in {"select", "report"} /\ sort_strategy = "journal") =>
        \A i, j, k \in DOMAIN ordered :
            (i < j /\ j < k /\ ordered[i].journal = ordered[k].journal)
                => ordered[j].journal = ordered[i].journal

\* the papers the run holds in its lists after the merge
Held ==
    Range(papers) \cup Range(ordered) \cup Range(selected)
        \cup UNION {Range(coverage_buckets[l]) : l \in DOMAIN coverage_buckets}

\* the steps that follow the scoring
AfterScore == {"filter", "sort", "select", "report"}

\* C19: the steps come in the order merge, score, filter, sort and classify,
\* select; the scoring step scores every fetched paper and is taken once;
\* before it nothing is filtered, classified or selected, and after it no
\* step changes a paper.
C19_ScoredOnceBeforeFilter ==
    /\ [](pc \in {"start", "create", "gather", "merge", "score"} =>
            /\ now = None
            /\ ordered = <<>> /\ coverage_buckets = <<>> /\ selected = <<>>
            /\ \A p \in Held : p.age_days = None /\ p.match_count = 0 /\ p.relevance = 0)
    /\ [](pc = "score" => papers = MergePapers(journal_chunks))
    /\ [][/\ pc' = "score" => pc = "merge"
          /\ pc = "score" =>
                /\ pc' = "filter"
                /\ Len(papers') = Len(papers)
                /\ \A i \in DOMAIN papers :
                     papers'[i] = ComputeRelevance(papers[i], keyword_list,
                                                   RecencyWindow(days), now')
          /\ pc = "filter" => pc' = "sort" /\ ordered' = <<>> /\ selected' = <<>>
          /\ pc = "sort" => pc' = "select" /\ selected' = <<>>
          /\ pc = "select" => pc' = "report"
          /\ pc \in AfterScore => (now' = now /\ Held' \subseteq Held)]_vars

\* C19 witness: the run has selected papers that were scored with a match,
\* after the filter had dropped a scored paper
C19_Witness ==
    /\ pc = "report"
    /\ selected # <<>>
    /\ Len(ordered) < Len(Scored)
    /\ \A i \in DOMAIN selected : selected[i] \in Range(Scored)

\* a request has not been answered yet
InFlight == \E j \in DOMAIN tasks : tasks[j].status = "pending"

\* C20 as stated: while a task is in flight no result has been added to the
\* list of results, no paper is in the merged list and nothing is scored.
C20_NothingCollectedInFlight ==
    InFlight =>
        /\ combined = <<>>
        /\ journal_chunks = <<>>
        /\ papers = <<>>
        /\ now = None

\* C20 amended: the results of the finished tasks are appended to the list
\* of _fetch_with_progress as they complete, also while other tasks are in
\* flight; that list is returned, papers are merged and scored only when no
\* task is in flight; the step in which a task finishes writes the result of
\* that task only, from its own journal and response.
C20_MergedAfterAllTasks ==
    /\ [](InFlight =>
            /\ pc = "gather"
            /\ journal_chunks = <<>>
            /\ papers = <<>>
            /\ now = None
            /\ Len(combined) < Len(tasks))
    /\ [](pc = "merge" => \A j \in DOMAIN tasks : tasks[j].status = "done")
    /\ [][\A j \in DOMAIN tasks :
            (j \in DOMAIN tasks' /\ tasks[j].status = "pending"
                /\ tasks'[j].status \in {"done", "failed"}) =>
                    /\ \A k \in DOMAIN tasks : k # j => tasks'[k] = tasks[k]
                    /\ combined' = combined
                    /\ tasks'[j].status = "done" =>
                         tasks'[j].result = FetchResult(journal_configs[j], j,
                                                        tasks'[j].results, max_results)]_vars

\* C20 witness: a result with papers is in the list while another task is
\* in flight
C20_Witness ==
    /\ pc = "gather"
    /\ InFlight
    /\ combined # <<>>
    /\ combined[1].papers # <<>>

\* C21: with --coverage all the selected list holds no paper twice, holds
\* only papers of the filtered list, and has exactly min(limit, n) papers,
\* n the number of filtered papers.
C21_DiversifiedFillsToLimit ==
    (Selected /\ coverage_filter = "all") =>
        /\ \A i, j \in DOMAIN selected : i # j => selected[i].id # selected[j].id
        /\ Range(selected) \subseteq Range(papers)
        /\ Len(selected) = Min(max_results, Len(papers))

\* C21 witness: more candidates than the limit, of several levels, and a
\* seeded paper that the filling loop meets again further down the sorted list
C21_Witness ==
    /\ pc = "report"
    /\ coverage_filter = "all"
    /\ Len(papers) > max_results
    /\ max_results >= 3
    /\ Cardinality(Tiers(papers)) >= 2
    /\ selected[2] # ordered[2]
    /\ Len(selected) = max_results

\* C22: with a positive --days the filter step keeps every paper that has no
\* age (no date, a date that did not parse, a date after the reference
\* time), a url and a matched keyword.
C22_UnknownAgeSurvivesDayWindow ==
    [][(pc = "filter" /\ days > 0) =>
          \A i \in DOMAIN papers :
              (papers[i].age_days = None /\ papers[i].url # <<>>
                  /\ papers[i].match_count >= 1)
                    => papers[i] \in Range(papers')]_vars

\* C22 witness: with a positive --days a paper without date and a paper
\* dated after the reference time are there after the filter, which dropped
\* a paper older than the window
C22_Witness ==
    /\ pc = "sort"
    /\ days > 0
    /\ \E i \in DOMAIN papers : papers[i].published = None /\ papers[i].age_days = None
    /\ \E i \in DOMAIN papers : papers[i].published > now /\ papers[i].age_days = None
    /\ \E i \in DOMAIN Scored :
         /\ Scored[i].age_days # None /\ Scored[i].age_days > days
         /\ Scored[i] \notin Range(papers)

\* the report has been rendered
Reported == pc = "exit" /\ exit_code = 0 /\ call.fn = "render_report"

\* the places of a paper in the groups of the report
Places(paper) ==
    {place \in UNION {{<<l, i>> : i \in DOMAIN call.groups[l]} : l \in DOMAIN call.groups} :
        call.groups[place[1]][place[2]] = paper}

\* C23: for every selected paper the classifier of the report returns the
\* level the classifier of the selection returns; in the rendered report
\* every selected paper is in exactly one of the four groups, the group of
\* its level, and no group holds another paper.
C23_ReportGroupsAgree ==
    Reported =>
         /\ DOMAIN call.groups \subseteq Range(Levels)
         /\ \A i \in DOMAIN selected :
              /\ ReportCoverageLevel(selected[i], Len(keyword_list))
                   = CoverageLevel(selected[i], Len(keyword_list))
              /\ Cardinality(Places(selected[i])) = 1
              /\ \A place \in Places(selected[i]) :
                   place[1] = CoverageLevel(selected[i], Len(keyword_list))
         /\ \A l \in DOMAIN call.groups : Range(call.groups[l]) \subseteq Range(selected)

\* C23 witness: a report with papers in the four groups
C23_Witness ==
    /\ Reported
    /\ DOMAIN call.groups = Range(Levels)
    /\ Tiers(selected) = Range(Levels)

(***************************************************************************)
(* Properties of _coverage_level.                                          *)
(***************************************************************************)
Classified == call.fn = "_coverage_level" /\ call.ret # ""

\* C6 as stated: the level is one of the four, and "full" whenever the
\* match count is at least the keyword count, for every keyword count.
C6_FullWheneverAllMatched ==
    Classified =>
        /\ call.ret \in Range(Levels)
        /\ call.match_count >= call.total_keywords => call.ret = "full"

\* C6 amended: the level is one of the four; for a keyword count of 1 or
\* more it is "full" whenever the match count is at least the keyword
\* count; for a keyword count of 0 it is "full" exactly when the match
\* count is positive.
C6_FullWheneverAllMatchedOfSome ==
    Classified =>
        /\ call.ret \in Range(Levels)
        /\ (call.total_keywords >= 1 /\ call.match_count >= call.total_keywords)
              => call.ret = "full"
        /\ call.total_keywords = 0 => (call.ret = "full" <=> call.match_count > 0)

\* C6 witness: more matches than keywords, classified "full"
C6_Witness ==
    /\ Classified
    /\ call.total_keywords >= 1
    /\ call.match_count > call.total_keywords
    /\ call.ret = "full"

\* C7: for a positive keyword count the rules apply in the order full, near,
\* partial, single; 2 of 3 is "near" and 1 of 2 is "single".
C7_RulesInPriorityOrder ==
    (Classified /\ call.total_keywords > 0) =>
        LET m == call.match_count
            k == call.total_keywords
        IN  /\ call.ret = "full" <=> m >= k
            /\ call.ret = "near" <=> (k > 2 /\ m = k - 1)
            /\ call.ret = "partial" <=> (m >= 2 /\ m < k - 1)
            /\ call.ret = "single" <=> (m <= 1 /\ m < k /\ ~(k > 2 /\ m = k - 1))
            /\ (k = 3 /\ m = 2) => call.ret = "near"
            /\ (k = 2 /\ m = 1) => call.ret = "single"

\* C7 witness: 2 of 3 keywords matched, classified "near"
C7_Witness ==
    /\ Classified
    /\ call.total_keywords = 3
    /\ call.match_count = 2
    /\ call.ret = "near"

(***************************************************************************)
(* Properties of compute_relevance.                                        *)
(***************************************************************************)
ScoredOnce == call.fn = "compute_relevance" /\ call.calls >= 1

ScoredTwice == call.fn = "compute_relevance" /\ call.calls = 2

\* C11: a second call of the scorer on the same paper with the same
\* keywords, window and reference time leaves relevance, age_days and
\* match_count as the first call left them, whatever the three fields held
\* before the first call.
C11_ScoringIdempotent ==
    ScoredTwice =>
        /\ call.paper.relevance = call.first.relevance
        /\ call.paper.age_days = call.first.age_days
        /\ call.paper.match_count = call.first.match_count
        /\ call.ret = call.first.relevance
        /\ call.paper = call.first

\* C11 witness: scored twice, a paper that came with other values in the
\* three fields and got a positive score, an age and a match
C11_Witness ==
    /\ ScoredTwice
    /\ call.paper.relevance > 0
    /\ call.paper.relevance # 999
    /\ call.paper.age_days \notin {None, 3}
    /\ call.paper.match_count = 1

\* paper q has, of keyword number k, at least the title and body occurrences
\* that paper p has and more of one of the two, while its date, its source
\* score and its occurrences of the other keywords are those of p
MoreHits(q, p, k, kws) ==
    LET hq == KeywordHits(q, kws)
        hp == KeywordHits(p, kws)
    IN  /\ q.published = p.published
        /\ q.source_score = p.source_score
        /\ \A i \in DOMAIN kws : i # k => hq[i] = hp[i]
        /\ hq[k].title_hits >= hp[k].title_hits
        /\ hq[k].body_hits >= hp[k].body_hits
        /\ hq[k].title_hits > hp[k].title_hits \/ hq[k].body_hits > hp[k].body_hits

\* C12: a paper with more title occurrences or more body occurrences of one
\* keyword than the scored paper, and the same age, source score and
\* occurrences of the other keywords, gets a strictly greater rounded
\* relevance from the same call.
C12_MoreHitsScoreHigher ==
    ScoredOnce =>
        \A q \in FreshPapers : \A k \in DOMAIN call.keywords :
            MoreHits(q, call.paper, k, call.keywords) =>
                ComputeRelevance(q, call.keywords, call.recency_window,
                                 call.reference).relevance > call.paper.relevance

\* C12 witness: a scored paper of age 10 (a score with a rounded part), with a
\* paper that has more title occurrences of a keyword and a paper that has
\* only more body occurrences of it
C12_Witness ==
    /\ ScoredOnce
    /\ call.paper.age_days = 10
    /\ call.paper.match_count = 1
    /\ \E q \in FreshPapers : \E k \in DOMAIN call.keywords :
         /\ MoreHits(q, call.paper, k, call.keywords)
         /\ KeywordHits(q, call.keywords)[k].title_hits
              > KeywordHits(call.paper, call.keywords)[k].title_hits
    /\ \E q \in FreshPapers : \E k \in DOMAIN call.keywords :
         /\ MoreHits(q, call.paper, k, call.keywords)
         /\ KeywordHits(q, call.keywords)[k].title_hits
              = KeywordHits(call.paper, call.keywords)[k].title_hits

\* the value the formula of the scorer gives for a paper, in hundredths, as
\* the fraction <<numerator, denominator>>
Formula(paper, kws, recency_window) ==
    LET hits == KeywordHits(paper, kws)
        used == {i \in DOMAIN kws : Strip(kws[i]) # <<>>}
        RECURSIVE Sum(_)
        Sum(is) == IF is = {} THEN 0
                   ELSE LET i == CHOOSE x \in is : TRUE
                        IN  600 * hits[i].title_hits + 250 * hits[i].body_hits
                            + Sum(is \ {i})
        matched == Cardinality({i \in used : hits[i].title_hits + hits[i].body_hits > 0})
        keyword_part == Sum(used) + 400 * matched + 10 * paper.source_score
        window == Max(recency_window, 30)
        age == paper.age_days
        fresh_times_window == Max(0, window - Min(age, window))
    IN  IF age = None THEN <<keyword_part, 1>>
        ELSE <<(keyword_part * window + 600 * fresh_times_window) * (1 + age)
                 + 400 * window,
               window * (1 + age)>>

\* C13: the scorer returns the value of the formula rounded to 2 decimals
\* (no other number of hundredths is nearer to it), and stores the number of
\* matched keywords; one keyword once in the title, no summary, age 10,
\* window 30 and no source score give 16.86, age 10 and 1 match.
C13_ScoreFormula ==
    ScoredOnce =>
        LET f == Formula(call.paper, call.keywords, call.recency_window)
            hits == KeywordHits(call.paper, call.keywords)
            diff == call.ret * f[2] - f[1]
        IN  /\ call.ret = call.paper.relevance
            /\ 2 * diff <= f[2]
            /\ -2 * diff <= f[2]
            /\ call.paper.match_count
                 = Cardinality({i \in DOMAIN hits : hits[i].title_hits + hits[i].body_hits > 0})
            /\ ( /\ Len(call.keywords) = 1
                 /\ hits[1].title_hits = 1
                 /\ call.paper.summary = <<>>
                 /\ call.paper.published = call.reference - 10 * TicksPerDay - 1
                 /\ call.recency_window = 30
                 /\ call.paper.source_score = 0 )
               => ( /\ call.ret = 1686
                    /\ call.paper.age_days = 10
                    /\ call.paper.match_count = 1 )

\* C13 witness: the scenario, scored 16.86
C13_Witness ==
    /\ ScoredOnce
    /\ Len(call.keywords) = 1
    /\ KeywordHits(call.paper, call.keywords)[1] = [title_hits |-> 1, body_hits |-> 1]
    /\ call.paper.summary = <<>>
    /\ call.paper.age_days = 10
    /\ call.recency_window = 30
    /\ call.paper.source_score = 0
    /\ call.ret = 1686

(***************************************************************************)
(* Properties of fetch_for_journal and _build_query.                       *)
(***************************************************************************)
Fetching == call.fn = "fetch_for_journal"

\* no keyword is left after trimming
NoUsableKeyword(kws) == \A i \in DOMAIN kws : Strip(kws[i]) = <<>>

\* C17: when no keyword is non-empty after trimming, fetch_for_journal leaves
\* with the ValueError of the query builder: no request is sent and no
\* result is returned, at any time.
C17_InvalidQueryBeforeRequest ==
    (Fetching /\ NoUsableKeyword(call.keywords)) =>
        /\ call.requests = <<>>
        /\ call.returned = <<>>
        /\ call.at \in {"start", "raised"}
        /\ call.at = "raised" => call.raised = "ValueError"

\* C17 witness: two blank keywords, the ValueError raised
C17_Witness ==
    /\ Fetching
    /\ Len(call.keywords) = 2
    /\ call.keywords[1] # <<>>
    /\ NoUsableKeyword(call.keywords)
    /\ call.at = "raised"
    /\ call.raised = "ValueError"

\* the terms as the claim states them: the trimmed keyword between double
\* quotes if it holds a whitespace character, bare if not
RECURSIVE PhraseTerms(_)
PhraseTerms(kws) ==
    IF kws = <<>> THEN <<>>
    ELSE LET term == Strip(Head(kws))
         IN  IF term = <<>> THEN PhraseTerms(Tail(kws))
             ELSE IF \E i \in DOMAIN term : term[i] \in Whitespace
                  THEN << <<"\"">> \o term \o <<"\"">> >> \o PhraseTerms(Tail(kws))
                  ELSE <<term>> \o PhraseTerms(Tail(kws))

\* C18: in the query of the request every trimmed non-empty keyword with a
\* whitespace character in it is a double-quoted phrase and every other
\* keyword a bare term.
C18_WhitespaceKeywordsQuoted ==
    (Fetching /\ call.requests # <<>>) =>
        LET terms == PhraseTerms(call.keywords)
        IN  call.requests[1].query[1].text
              = IF Len(terms) = 1 THEN terms[1]
                ELSE <<"(">> \o JoinOr(terms) \o <<")">>

====
